---- MODULE Spec2Model ----
(***************************************************************************)
(* UfileStorage.Save (storage/ufile.go): the single-shot PUT and the       *)
(* multipart upload with its concurrent part workers, the join barrier,    *)
(* the remainder part and the finalization.                                *)
(*                                                                         *)
(* One behaviour is one call of Save.  The main goroutine and every        *)
(* `go func(j int)` worker are processes with their own position; the      *)
(* variables they share without synchronisation (the loop variable i, the  *)
(* slice etags) are shared variables of the model and are read and         *)
(* written in separate steps, so that every interleaving the Go memory     *)
(* model allows for them is a behaviour.                                   *)
(*                                                                         *)
(* Two pure functions are studied under specifications of their own:       *)
(* UfileStorage.signheader (SignSpec) and JsonConfig.Get of package        *)
(* rrconfig (GetSpec).                                                     *)
(***************************************************************************)
EXTENDS Integers, Sequences, FiniteSets, TLC

\* ------------------------------------------------------------------ bounds
\* The largest number of full parts (concurrent workers) of one Save.
MaxParts == 2

\* The largest number of characters of the key of a JsonConfig.Get.
MaxKeyLen == 3

\* ------------------------------------------------------- program constants
MAX_PUT_SIZE == 52428800

\* cap(errChan): errChan := make(chan error, 1)
ErrChanCap == 1

\* ------------------------------------------------------------------ inputs
\* len(content) of the call: empty, around the threshold, and well above it.
Sizes == {0, MAX_PUT_SIZE - 1, MAX_PUT_SIZE, MAX_PUT_SIZE + 1, 2 * MAX_PUT_SIZE}

\* BlkSize values the server's JSON can carry for a payload of `size` bytes:
\* the ones that cut it into 1..MaxParts full parts (with or without a
\* remainder), one larger than the payload, zero and negative ones.
BlkSizes(size) ==
    {size \div k : k \in 1..MaxParts} \cup {size \div k + 1 : k \in 1..MaxParts}
        \cup {0, -size, -(size \div 2)}

\* What one HTTP exchange can come to: no response at all (client.Do fails),
\* or a response with a status, a body that can or cannot be read, and a
\* body that is or is not the expected JSON.
Responses ==
    {[transport |-> TRUE, status |-> 0, readable |-> FALSE, json |-> FALSE]}
        \cup [transport : {FALSE}, status : {200, 403},
              readable : BOOLEAN, json : BOOLEAN]

Workers == 0..(MaxParts - 1)

\* ------------------------------------------------------------ pure helpers
\* Go's integer division truncates toward zero.  b # 0.
GoDiv(a, b) ==
    IF (a >= 0) = (b > 0)
    THEN (IF a >= 0 THEN a ELSE -a) \div (IF b > 0 THEN b ELSE -b)
    ELSE -((IF a >= 0 THEN a ELSE -a) \div (IF b > 0 THEN b ELSE -b))

\* strings.Join(elems, sep)
RECURSIVE Join(_, _)
Join(elems, sep) ==
    IF Len(elems) = 0 THEN ""
    ELSE IF Len(elems) = 1 THEN elems[1]
    ELSE elems[1] \o sep \o Join(Tail(elems), sep)

\* The ETag header the service answers for the part whose bytes start the
\* k-th block of the payload (an opaque tag of the uploaded bytes).
ETag(k) == "etag" \o ToString(k)

\* if size > MAX_PUT_SIZE
UseMultipartOff(size) == size >= MAX_PUT_SIZE
UseMultipart(size) == size > MAX_PUT_SIZE

\* part := content[j*initRes.BlkSize : (j+1)*initRes.BlkSize]
PartRangeShort(j, blk) == [lo |-> j * blk, hi |-> (j + 1) * blk - 1]
PartRange(j, blk) == [lo |-> j * blk, hi |-> (j + 1) * blk]

\* if num*initRes.BlkSize < size
HasRemainderOff(n, blk, size) == n * blk <= size
HasRemainder(n, blk, size) == n * blk < size

RemainderRangeShort(n, blk, size) == [lo |-> n * blk, hi |-> size - 1]

\* part := content[num*initRes.BlkSize:]
RemainderRange(n, blk, size) == [lo |-> n * blk, hi |-> size]

\* The error results of the four HTTP helpers, "nil" for success.
initiateMultipartUploadNoDecode(r) ==
    IF r.transport THEN "transport error"
    ELSE IF ~r.readable THEN "read error"
    ELSE IF r.status # 200 THEN "initiateMultipartUpload failed"
    ELSE "nil"

initiateMultipartUpload(r) ==
    IF r.transport THEN "transport error"
    ELSE IF ~r.readable THEN "read error"
    ELSE IF r.status # 200 THEN "initiateMultipartUpload failed"
    ELSE IF ~r.json THEN "json error"
    ELSE "nil"

uploadPart(r) ==
    IF r.transport THEN "transport error"
    ELSE IF ~r.readable THEN "read error"
    ELSE IF r.status # 200 THEN "uploadPart failed"
    ELSE IF ~r.json THEN "json error"
    ELSE "nil"

finishMultipartUploadNoDecode(r) ==
    IF r.transport THEN "transport error"
    ELSE IF ~r.readable THEN "read error"
    ELSE IF r.status # 200 THEN "finishMultipartUpload failed"
    ELSE "nil"

finishMultipartUpload(r) ==
    IF r.transport THEN "transport error"
    ELSE IF ~r.readable THEN "read error"
    ELSE IF r.status # 200 THEN "finishMultipartUpload failed"
    ELSE IF ~r.json THEN "json error"
    ELSE "nil"

putNoStatusCheck(r) ==
    IF r.transport THEN "transport error" ELSE "nil"

put(r) ==
    IF r.transport THEN "transport error"
    ELSE IF r.status # 200
         THEN (IF ~r.readable THEN "read error" ELSE "put file failed")
    ELSE "nil"

\* No response yet.
NoResponse == [transport |-> FALSE, status |-> 0, readable |-> FALSE, json |-> FALSE]

\* ------------------------------------------------------------- signheader
\* data := method + "\n"; data += "\n"; data += ctype + "\n"; data += "\n";
\* data += "/" + bucket + "/" + filename
signheaderDataNoCtype(method, ctype, bucket, filename) ==
    method \o "\n" \o "\n" \o "\n" \o "\n" \o "/" \o bucket \o "/" \o filename
signheaderData(method, ctype, bucket, filename) ==
    method \o "\n" \o "\n" \o ctype \o "\n" \o "\n" \o "/" \o bucket \o "/" \o filename

\* h := hmac.New(sha1.New, key); h.Write(data); h.Sum(nil): the keyed hash
\* as a term in its key and message (no two messages collide under a key).
hmacSha1(key, data) == [mac |-> "hmac-sha1", key |-> key, data |-> data]

\* base64.StdEncoding.EncodeToString(src)
base64(src) == [b64 |-> src]

signheader(PrivateKey, method, ctype, bucket, filename) ==
    base64(hmacSha1(PrivateKey, signheaderData(method, ctype, bucket, filename)))

\* The arguments signheader is studied on.
PrivateKeys == {"k1", "k2"}
Methods == {"PUT", "POST"}
ContentTypes == {"application/octet-stream", "text/plain", ""}
Buckets == {"b", "b/f"}
Filenames == {"f", "f/f", ""}
SignArgs ==
    [method : Methods, ctype : ContentTypes, bucket : Buckets, filename : Filenames]

\* The value of sig while no signheader call is studied.
NoSignArgs == [method |-> "", ctype |-> "", bucket |-> "", filename |-> ""]
NoToken == base64(hmacSha1("", ""))
SigIdle ==
    [phase |-> "idle", key |-> "", a |-> NoSignArgs, b |-> NoSignArgs,
     dataA |-> "", dataB |-> "", tokenA |-> NoToken, tokenB |-> NoToken]

\* ---------------------------------------------------------- JsonConfig.Get
\* A key is a string over these characters, of at most MaxKeyLen of them.
Chars == {"a", "b", "."}
Keys == UNION {[1..n -> Chars] : n \in 0..MaxKeyLen}

\* The values of a parsed document (interface{}): a JSON object
\* (map[string]interface{}) or anything else (number, string, array, null),
\* and Go's nil.
Object(f) == [kind |-> "object", n |-> 0, m |-> f]
Scalar(n) == [kind |-> "scalar", n |-> n, m |-> <<>>]
Nil == [kind |-> "nil", n |-> 0, m |-> <<>>]

\* The documents s.m the lookups run on; member names are strings over Chars.
\*   {"a": 1, "b": {"a": 2, "b": {"a": 3}}}
\*   {"a": {"a": {"a": {}}}, "": 4}
\*   {}
\*   {"a": {"": {"b": 5}, "b": 6}, "b": {"": 7}}
Docs ==
    { (<<"a">> :> Scalar(1)) @@
      (<<"b">> :> Object((<<"a">> :> Scalar(2)) @@
                         (<<"b">> :> Object(<<"a">> :> Scalar(3))))),
      (<<"a">> :> Object(<<"a">> :> Object(<<"a">> :> Object(<<>>)))) @@
      (<<>> :> Scalar(4)),
      <<>>,
      (<<"a">> :> Object((<<>> :> Object(<<"b">> :> Scalar(5))) @@
                         (<<"b">> :> Scalar(6)))) @@
      (<<"b">> :> Object(<<>> :> Scalar(7))) }

\* strings.Split(s, "."): the pieces between the dots, empty ones included.
RECURSIVE Split(_)
Split(s) ==
    IF \A k \in 1..Len(s) : s[k] # "."
    THEN <<s>>
    ELSE LET d == CHOOSE k \in 1..Len(s) :
                     s[k] = "." /\ \A h \in 1..(k - 1) : s[h] # "."
         IN  <<SubSeq(s, 1, d - 1)>> \o Split(SubSeq(s, d + 1, Len(s)))

\* for i := 0; i < len(nodes); i++ {...}; return m, nil  (nodes from index i)
RECURSIVE GetFromStrict(_, _, _)
GetFromStrict(m, nodes, i) ==
    IF i > Len(nodes) THEN [v |-> Object(m), err |-> FALSE]
    ELSE IF nodes[i] \in DOMAIN m
         THEN IF m[nodes[i]].kind = "object"
              THEN GetFromStrict(m[nodes[i]].m, nodes, i + 1)
              ELSE IF i < Len(nodes) THEN [v |-> Nil, err |-> TRUE]
              ELSE [v |-> m[nodes[i]], err |-> FALSE]
         ELSE [v |-> Nil, err |-> TRUE]

RECURSIVE GetFrom(_, _, _)
GetFrom(m, nodes, i) ==
    IF i > Len(nodes) THEN [v |-> Object(m), err |-> FALSE]
    ELSE IF nodes[i] \in DOMAIN m
         THEN IF m[nodes[i]].kind = "object"
              THEN GetFrom(m[nodes[i]].m, nodes, i + 1)
              ELSE [v |-> m[nodes[i]], err |-> FALSE]
         ELSE [v |-> Nil, err |-> TRUE]

\* func (s *JsonConfig) Get(key string) (interface{}, error)
Get(doc, key) == GetFrom(doc, Split(key), 1)

\* The value of get while no JsonConfig.Get call is studied.
GetIdle ==
    [phase |-> "idle", doc |-> <<>>, key |-> <<>>, v |-> Nil, err |-> FALSE]

\* ------------------------------------------------------------------- state
VARIABLES
    size,        \* len(content)
    pc,          \* position of the main goroutine in Save
    ret,         \* Save's return value: "none" while running, "nil", or an error
    BlkSize,     \* initRes.BlkSize
    num,         \* num := size / initRes.BlkSize
    i,           \* the loop variable, captured by every worker closure
    etags,       \* etags []string, shared by main and the workers
    errChan,     \* the buffered channel's contents
    wg,          \* the WaitGroup counter
    wpc,         \* position of worker j
    werr,        \* worker j's err
    wetag,       \* worker j's etag
    wold,        \* the value of etags worker j's append has read
    remErr,      \* err of the remainder part's uploadPart
    uploads,     \* the uploadPart calls made: part number, byte range, caller
    putCalls,    \* number of put calls
    initCalls,   \* number of initiateMultipartUpload calls
    finishCalls, \* number of finishMultipartUpload calls
    finishArg,   \* the etags string of the finishMultipartUpload call
    resp,        \* resp of client.Do in put, initiateMultipartUpload, finishMultipartUpload
    sig,         \* the signheader calls under study: arguments, hashed data, tokens
    get          \* the JsonConfig.Get call under study: document, key, result

vars == <<size, pc, ret, BlkSize, num, i, etags, errChan, wg, wpc, werr, wetag,
          wold, remErr, uploads, putCalls, initCalls, finishCalls, finishArg,
          resp, sig, get>>

\* The variables of Save, and those of the two pure functions studied apart.
saveVars == <<size, pc, ret, BlkSize, num, i, etags, errChan, wg, wpc, werr,
              wetag, wold, remErr, uploads, putCalls, initCalls, finishCalls,
              finishArg, resp>>

pureVars == <<sig, get>>

mainVars == <<pc, ret, BlkSize, num, i, remErr, putCalls, initCalls,
              finishCalls, finishArg, resp>>

\* Save's variables on entry, len(content) apart.
SaveStart ==
    /\ pc = "entry"
    /\ ret = "none"
    /\ BlkSize = 0
    /\ num = 0
    /\ i = 0
    /\ etags = <<>>
    /\ errChan = <<>>
    /\ wg = 0
    /\ wpc = [j \in Workers |-> "idle"]
    /\ werr = [j \in Workers |-> "nil"]
    /\ wetag = [j \in Workers |-> ""]
    /\ wold = [j \in Workers |-> <<>>]
    /\ remErr = "nil"
    /\ uploads = {}
    /\ putCalls = 0
    /\ initCalls = 0
    /\ finishCalls = 0
    /\ finishArg = ""
    /\ resp = [put |-> NoResponse, init |-> NoResponse, finish |-> NoResponse]

Init ==
    /\ size \in Sizes
    /\ SaveStart
    /\ sig = SigIdle
    /\ get = GetIdle

\* ---------------------------------------------------------- main goroutine
\* else { return s.put(content, filename) }
SavePut(r) ==
    /\ pc = "entry"
    /\ ~UseMultipart(size)
    /\ putCalls' = putCalls + 1
    /\ ret' = put(r)
    /\ pc' = "returned"
    /\ UNCHANGED <<size, BlkSize, num, i, etags, errChan, wg, wpc, werr, wetag,
                   wold, remErr, uploads, initCalls, finishCalls, finishArg>>
    /\ resp' = [resp EXCEPT !.put = r]
    /\ UNCHANGED pureVars

\* initRes, err := s.initiateMultipartUpload(filename) ... var wg sync.WaitGroup
SaveInit(r, blk) ==
    /\ pc = "entry"
    /\ UseMultipart(size)
    /\ initCalls' = initCalls + 1
    /\ IF initiateMultipartUpload(r) # "nil"
       THEN /\ ret' = initiateMultipartUpload(r)
            /\ pc' = "returned"
            /\ UNCHANGED <<BlkSize, num>>
       ELSE /\ BlkSize' = blk
            /\ IF blk = 0
               THEN /\ pc' = "panicked"      \* integer divide by zero
                    /\ UNCHANGED num
               ELSE /\ pc' = "loop"
                    /\ num' = GoDiv(size, blk)
            /\ UNCHANGED ret
    /\ UNCHANGED <<size, i, etags, errChan, wg, wpc, werr, wetag, wold, remErr,
                   uploads, putCalls, finishCalls, finishArg>>
    /\ resp' = [resp EXCEPT !.init = r]
    /\ UNCHANGED pureVars

\* i < num: wg.Add(1); go func(j int) {...}(i)
LoopLaunch ==
    /\ pc = "loop"
    /\ i < num
    /\ wg' = wg + 1
    /\ wpc' = [wpc EXCEPT ![i] = "ready"]
    /\ pc' = "inc"
    /\ UNCHANGED <<size, ret, BlkSize, num, i, etags, errChan, werr, wetag, wold,
                   remErr, uploads, putCalls, initCalls, finishCalls, finishArg>>
    /\ UNCHANGED resp
    /\ UNCHANGED pureVars

\* i++
LoopInc ==
    /\ pc = "inc"
    /\ i' = i + 1
    /\ pc' = "loop"
    /\ UNCHANGED <<size, ret, BlkSize, num, etags, errChan, wg, wpc, werr, wetag,
                   wold, remErr, uploads, putCalls, initCalls, finishCalls,
                   finishArg>>
    /\ UNCHANGED resp
    /\ UNCHANGED pureVars

\* !(i < num): the loop ends
LoopExit ==
    /\ pc = "loop"
    /\ ~(i < num)
    /\ pc' = "wait"
    /\ UNCHANGED <<size, ret, BlkSize, num, i, etags, errChan, wg, wpc, werr,
                   wetag, wold, remErr, uploads, putCalls, initCalls, finishCalls,
                   finishArg>>
    /\ UNCHANGED resp
    /\ UNCHANGED pureVars

\* (the branch after the loop, taken without the join)
WaitNoJoin ==
    /\ pc = "wait"
    /\ pc' = IF HasRemainder(num, BlkSize, size) THEN "rem" ELSE "finish"
    /\ UNCHANGED <<size, ret, BlkSize, num, i, etags, errChan, wg, wpc, werr,
                   wetag, wold, remErr, uploads, putCalls, initCalls, finishCalls,
                   finishArg, resp>>
    /\ UNCHANGED pureVars

\* wg.Wait(); if num*initRes.BlkSize < size
Wait ==
    /\ pc = "wait"
    /\ wg = 0
    /\ pc' = IF HasRemainder(num, BlkSize, size) THEN "rem" ELSE "finish"
    /\ UNCHANGED <<size, ret, BlkSize, num, i, etags, errChan, wg, wpc, werr,
                   wetag, wold, remErr, uploads, putCalls, initCalls, finishCalls,
                   finishArg>>
    /\ UNCHANGED resp
    /\ UNCHANGED pureVars

\* (the remainder part, its err not looked at)
RemainderIgnoreErr(r) ==
    /\ pc = "rem"
    /\ uploads' = uploads \cup
          {[partNum |-> num, by |-> "main",
            lo |-> RemainderRange(num, BlkSize, size).lo,
            hi |-> RemainderRange(num, BlkSize, size).hi]}
    /\ remErr' = uploadPart(r)
    /\ etags' = Append(etags, ETag(num))
    /\ pc' = "finish"
    /\ UNCHANGED <<size, ret, BlkSize, num, i, errChan, wg, wpc, werr, wetag,
                   wold, putCalls, initCalls, finishCalls, finishArg, resp>>
    /\ UNCHANGED pureVars

\* part := content[num*BlkSize:]; _, etag, err := s.uploadPart(part, initRes, num)
Remainder(r) ==
    /\ pc = "rem"
    /\ uploads' = uploads \cup
          {[partNum |-> num, by |-> "main",
            lo |-> RemainderRange(num, BlkSize, size).lo,
            hi |-> RemainderRange(num, BlkSize, size).hi]}
    /\ remErr' = uploadPart(r)
    /\ IF uploadPart(r) # "nil"
       THEN /\ ret' = uploadPart(r)
            /\ pc' = "returned"
            /\ UNCHANGED etags
       ELSE /\ etags' = Append(etags, ETag(num))
            /\ pc' = "finish"
            /\ UNCHANGED ret
    /\ UNCHANGED <<size, BlkSize, num, i, errChan, wg, wpc, werr, wetag, wold,
                   putCalls, initCalls, finishCalls, finishArg>>
    /\ UNCHANGED resp
    /\ UNCHANGED pureVars

\* _, err = s.finishMultipartUpload(initRes, strings.Join(etags, ","))
Finish(r) ==
    /\ pc = "finish"
    /\ finishCalls' = finishCalls + 1
    /\ finishArg' = Join(etags, ",")
    /\ ret' = finishMultipartUpload(r)
    /\ pc' = "returned"
    /\ UNCHANGED <<size, BlkSize, num, i, etags, errChan, wg, wpc, werr, wetag,
                   wold, remErr, uploads, putCalls, initCalls>>
    /\ resp' = [resp EXCEPT !.finish = r]
    /\ UNCHANGED pureVars

Main ==
    \/ \E r \in Responses : SavePut(r)
    \/ \E r \in Responses : \E blk \in BlkSizes(size) : SaveInit(r, blk)
    \/ LoopLaunch
    \/ LoopInc
    \/ LoopExit
    \/ Wait
    \/ \E r \in Responses : Remainder(r)
    \/ \E r \in Responses : Finish(r)

\* ------------------------------------------------------- worker goroutines
\* part := content[j*BlkSize:(j+1)*BlkSize]; s.uploadPart(part, initRes, i):
\* the request goes out with the value the shared i holds at this moment.
WorkerCall(j) ==
    /\ wpc[j] = "ready"
    /\ uploads' = uploads \cup
          {[partNum |-> i, by |-> "worker",
            lo |-> PartRange(j, BlkSize).lo, hi |-> PartRange(j, BlkSize).hi]}
    /\ wpc' = [wpc EXCEPT ![j] = "inflight"]
    /\ UNCHANGED <<size, etags, errChan, wg, werr, wetag, wold>>
    /\ UNCHANGED mainVars
    /\ UNCHANGED pureVars

\* _, etag, err := (the response arrives); if err != nil
WorkerResponse(j, r) ==
    /\ wpc[j] = "inflight"
    /\ werr' = [werr EXCEPT ![j] = uploadPart(r)]
    /\ IF uploadPart(r) # "nil"
       THEN /\ wpc' = [wpc EXCEPT ![j] = "send"]
            /\ UNCHANGED wetag
       ELSE /\ wpc' = [wpc EXCEPT ![j] = "append"]
            /\ wetag' = [wetag EXCEPT ![j] = ETag(j)]
    /\ UNCHANGED <<size, etags, errChan, wg, wold, uploads>>
    /\ UNCHANGED mainVars
    /\ UNCHANGED pureVars

\* errChan <- err; return (and the deferred wg.Done()).  The send blocks
\* while the buffer is full; nothing ever receives from errChan.
WorkerSend(j) ==
    /\ wpc[j] = "send"
    /\ Len(errChan) < ErrChanCap
    /\ errChan' = Append(errChan, werr[j])
    /\ wpc' = [wpc EXCEPT ![j] = "done"]
    /\ wg' = wg - 1
    /\ UNCHANGED <<size, etags, werr, wetag, wold, uploads>>
    /\ UNCHANGED mainVars
    /\ UNCHANGED pureVars

\* etags = append(etags, etag): the read of the shared slice ...
WorkerAppendRead(j) ==
    /\ wpc[j] = "append"
    /\ wold' = [wold EXCEPT ![j] = etags]
    /\ wpc' = [wpc EXCEPT ![j] = "store"]
    /\ UNCHANGED <<size, etags, errChan, wg, werr, wetag, uploads>>
    /\ UNCHANGED mainVars
    /\ UNCHANGED pureVars

\* ... and the write of the appended slice back; then the deferred wg.Done()
WorkerAppendWrite(j) ==
    /\ wpc[j] = "store"
    /\ etags' = Append(wold[j], wetag[j])
    /\ wpc' = [wpc EXCEPT ![j] = "done"]
    /\ wg' = wg - 1
    /\ UNCHANGED <<size, errChan, werr, wetag, wold, uploads>>
    /\ UNCHANGED mainVars
    /\ UNCHANGED pureVars

Worker(j) ==
    \/ WorkerCall(j)
    \/ \E r \in Responses : WorkerResponse(j, r)
    \/ WorkerSend(j)
    \/ WorkerAppendRead(j)
    \/ WorkerAppendWrite(j)

Next ==
    \/ Main
    \/ \E j \in Workers : Worker(j)

Spec == Init /\ [][Next]_vars

\* The Go scheduler runs every runnable goroutine, and every request that
\* was sent gets its response.
FairSpec == Spec /\ WF_vars(Main) /\ \A j \in Workers : WF_vars(Worker(j))

\* --------------------------------------------------- signheader, on its own
\* Two calls of signheader on one UfileStorage: the second call's arguments
\* are the first call's, or differ from them in exactly one argument.
SignInit ==
    /\ size = 0
    /\ SaveStart
    /\ get = GetIdle
    /\ \E key \in PrivateKeys : \E a \in SignArgs : \E b \in SignArgs :
          /\ Cardinality({f \in {"method", "ctype", "bucket", "filename"} :
                             a[f] # b[f]}) <= 1
          /\ sig = [phase |-> "args", key |-> key, a |-> a, b |-> b,
                    dataA |-> "", dataB |-> "",
                    tokenA |-> NoToken, tokenB |-> NoToken]

\* s.signheader(a.method, a.ctype, a.bucket, a.filename)
SignFirst ==
    /\ sig.phase = "args"
    /\ sig' = [sig EXCEPT
          !.phase = "first",
          !.dataA = signheaderData(sig.a.method, sig.a.ctype, sig.a.bucket,
                                   sig.a.filename),
          !.tokenA = signheader(sig.key, sig.a.method, sig.a.ctype, sig.a.bucket,
                                sig.a.filename)]
    /\ UNCHANGED <<saveVars, get>>

\* s.signheader(b.method, b.ctype, b.bucket, b.filename)
SignSecond ==
    /\ sig.phase = "first"
    /\ sig' = [sig EXCEPT
          !.phase = "signed",
          !.dataB = signheaderData(sig.b.method, sig.b.ctype, sig.b.bucket,
                                   sig.b.filename),
          !.tokenB = signheader(sig.key, sig.b.method, sig.b.ctype, sig.b.bucket,
                                sig.b.filename)]
    /\ UNCHANGED <<saveVars, get>>

SignNext ==
    \/ SignFirst
    \/ SignSecond

SignSpec == SignInit /\ [][SignNext]_vars

\* ------------------------------------------------ JsonConfig.Get, on its own
GetInit ==
    /\ size = 0
    /\ SaveStart
    /\ sig = SigIdle
    /\ \E doc \in Docs : \E key \in Keys :
          get = [phase |-> "call", doc |-> doc, key |-> key, v |-> Nil,
                 err |-> FALSE]

\* v, err := s.Get(key)
JsonGet ==
    /\ get.phase = "call"
    /\ get' = [get EXCEPT !.phase = "done",
                          !.v = Get(get.doc, get.key).v,
                          !.err = Get(get.doc, get.key).err]
    /\ UNCHANGED <<saveVars, sig>>

GetNext == JsonGet

GetSpec == GetInit /\ [][GetNext]_vars

\* ---------------------------------------------------- vocabulary of claims
\* Some part upload of this Save returned an error.
PartFailed == remErr # "nil" \/ \E j \in Workers : werr[j] # "nil"

\* The launching loop is over.
LoopDone ==
    pc \in {"wait", "rem", "finish"} \/ remErr # "nil" \/ finishCalls > 0

\* The part phase is over: the join returned and the remainder, if any, was sent.
PartsDone == pc = "finish" \/ remErr # "nil" \/ finishCalls > 0

\* The number of parts a payload of `size` bytes has under block size BlkSize > 0.
TotalParts == (size \div BlkSize) + (IF size % BlkSize # 0 THEN 1 ELSE 0)

\* The block indices whose tag is in etags.
PartsTagged == {k \in 0..MaxParts : \E a \in 1..Len(etags) : etags[a] = ETag(k)}

\* The tags of the blocks in S, in ascending block order.
RECURSIVE TagsAscending(_)
TagsAscending(S) ==
    IF S = {} THEN <<>>
    ELSE LET m == CHOOSE x \in S : \A y \in S : x <= y
         IN  <<ETag(m)>> \o TagsAscending(S \ {m})

\* ------------------------------------------------------------------ claims
\* C1: the string passed to finishMultipartUpload lists the collected tags in
\* ascending part-number order, whatever order the concurrent part uploads
\* completed in (session with a positive block size).
C1_TagsInPartOrder ==
    (finishCalls > 0 /\ BlkSize > 0)
        => finishArg = Join(TagsAscending(PartsTagged), ",")

\* C2: if any part upload failed, finishMultipartUpload is never invoked.
C2_NoFinishAfterPartFailure == PartFailed => finishCalls = 0

\* C3: if any part upload failed, Save does not return success.
C3_PartFailureIsReturned == (pc = "returned" /\ PartFailed) => ret # "nil"

\* C4: Save always terminates: with every goroutine scheduled and every
\* request answered, Save eventually returns (or panics), for any number of
\* failing parts.
C4_SaveTerminates == <>(pc \in {"returned", "panicked"})

\* C5: whenever finishMultipartUpload is invoked, the tag list holds exactly
\* one tag per part index in [0, totalParts) (positive block size).
C5_OneTagPerPart ==
    (finishCalls > 0 /\ BlkSize > 0)
        => /\ Len(etags) = TotalParts
           /\ \A k \in 0..(TotalParts - 1) :
                 Cardinality({a \in 1..Len(etags) : etags[a] = ETag(k)}) = 1

\* C6: the worker uploading the byte range [j*B, (j+1)*B) passes part number
\* j to uploadPart, and no two uploaded parts carry the same part number
\* (positive block size).
C6_PartNumberIsOffsetIndex ==
    BlkSize > 0
        => /\ \A u \in uploads : u.by = "worker" => u.lo = u.partNum * BlkSize
           /\ \A u, v \in uploads : u # v => u.partNum # v.partNum

\* C7: a payload of at most MAX_PUT_SIZE bytes is sent by exactly one put and
\* by no initiateMultipartUpload, uploadPart or finishMultipartUpload; a
\* larger payload is never sent by put.
C7_SingleShotBelowThreshold ==
    /\ size <= MAX_PUT_SIZE
          => /\ initCalls = 0 /\ uploads = {} /\ finishCalls = 0
             /\ putCalls <= 1
             /\ pc = "returned" => putCalls = 1
    /\ size > MAX_PUT_SIZE => putCalls = 0

C7_Witness == size = MAX_PUT_SIZE /\ pc = "returned" /\ putCalls = 1

\* C8: for a block size B > 0 the number of launched full parts is
\* floor(size/B); a remainder part is uploaded iff size mod B # 0, always
\* numbered floor(size/B); on an exact multiple there is no remainder part
\* and size/B parts in all.
C8_PartCount ==
    BlkSize > 0
        => /\ LoopDone =>
                Cardinality({j \in Workers : wpc[j] # "idle"}) = size \div BlkSize
           /\ PartsDone =>
                /\ (\E u \in uploads : u.by = "main") <=> (size % BlkSize # 0)
                /\ \A u \in uploads : u.by = "main" => u.partNum = size \div BlkSize
                /\ size % BlkSize = 0 => Cardinality(uploads) = size \div BlkSize

C8_Witness ==
    /\ finishCalls = 1 /\ BlkSize > 0 /\ size % BlkSize # 0
    /\ Cardinality({j \in Workers : wpc[j] # "idle"}) = MaxParts
    /\ \E u \in uploads : u.by = "main" /\ u.partNum = MaxParts

\* C9: when every part upload succeeded, finishMultipartUpload is invoked
\* exactly once, after every launched part upload completed, with the
\* comma-join of all N part tags in part order (positive block size).
C9_FinishWithAllTags ==
    /\ finishCalls > 0 => \A j \in Workers : wpc[j] \in {"idle", "done"}
    /\ (pc = "returned" /\ BlkSize > 0 /\ ~PartFailed)
          => /\ finishCalls = 1
             /\ finishArg = Join(TagsAscending(0..(TotalParts - 1)), ",")

C11_BlockSizePositive ==
    /\ pc # "panicked"
    /\ pc \in {"loop", "inc", "wait", "rem", "finish"} => BlkSize > 0
    /\ uploads # {} => BlkSize > 0

\* C12: at or below the threshold Save succeeds iff the single PUT got an
\* HTTP 200 response; any other status yields the error made of the response
\* body; a transport failure yields the transport error, be it client.Do's
\* or that of reading the body of a non-200 response.
C12_PutResult ==
    (size <= MAX_PUT_SIZE /\ pc = "returned")
        => /\ ret = "nil" <=> (~resp.put.transport /\ resp.put.status = 200)
           /\ resp.put.transport => ret = "transport error"
           /\ (~resp.put.transport /\ resp.put.status # 200)
                 => ret = (IF resp.put.readable THEN "put file failed"
                           ELSE "read error")

C12_Witness ==
    /\ size <= MAX_PUT_SIZE /\ pc = "returned"
    /\ ~resp.put.transport /\ resp.put.status = 403 /\ resp.put.readable
    /\ ret = "put file failed"

C14_RemainderAfterJoin ==
    /\ (pc = "rem" \/ \E u \in uploads : u.by = "main")
          => \A j \in Workers : wpc[j] \in {"idle", "done"}
    /\ (finishCalls > 0 /\ remErr = "nil" /\ \E u \in uploads : u.by = "main")
          => /\ Len(etags) > 0
             /\ etags[Len(etags)] = ETag(num)
             /\ finishArg =
                  Join(Append(SubSeq(etags, 1, Len(etags) - 1), ETag(num)), ",")

C14_Witness ==
    /\ finishCalls = 1 /\ remErr = "nil" /\ num = MaxParts
    /\ \E u \in uploads : u.by = "main"
    /\ Len(etags) = MaxParts + 1
    /\ etags[Len(etags)] = ETag(num)

Failed(r) == r.transport \/ ~r.readable \/ r.status # 200 \/ ~r.json

\* C16: if initiateMultipartUpload fails (transport error, non-200 status or
\* malformed JSON body), Save returns that error and neither uploadPart nor
\* finishMultipartUpload is ever called.
C16_InitFailureStopsSave ==
    (initCalls = 1 /\ Failed(resp.init))
        => /\ pc = "returned"
           /\ resp.init.transport => ret = "transport error"
           /\ (~resp.init.transport /\ resp.init.readable /\ resp.init.status # 200)
                 => ret = "initiateMultipartUpload failed"
           /\ (~resp.init.transport /\ resp.init.readable /\ resp.init.status = 200)
                 => ret = "json error"
           /\ ret # "nil"
           /\ uploads = {} /\ finishCalls = 0
           /\ \A j \in Workers : wpc[j] = "idle"

C16_Witness ==
    /\ initCalls = 1 /\ pc = "returned" /\ ret = "json error"
    /\ ~resp.init.transport /\ resp.init.readable /\ resp.init.status = 200
    /\ ~resp.init.json

\* C17: when the multipart branch runs with a block size larger than the
\* payload, fullParts is 0, no worker is launched and exactly one part is
\* uploaded: the whole payload as the remainder part numbered 0, followed by
\* the finalization with that single tag.
C17_PayloadSmallerThanBlock ==
    (initCalls = 1 /\ BlkSize > size)
        => /\ num = 0
           /\ \A j \in Workers : wpc[j] = "idle"
           /\ uploads \subseteq
                 {[partNum |-> 0, by |-> "main", lo |-> 0, hi |-> size]}
           /\ PartsDone => uploads # {}
           /\ finishCalls > 0 => (finishCalls = 1 /\ finishArg = ETag(0))
           /\ (pc = "returned" /\ remErr = "nil") => finishCalls = 1

C17_Witness ==
    /\ initCalls = 1 /\ BlkSize > size /\ finishCalls = 1
    /\ finishArg = "etag0"
    /\ uploads = {[partNum |-> 0, by |-> "main", lo |-> 0, hi |-> size]}

\* C18: if the remainder part's upload fails, Save returns that error at once
\* and finishMultipartUpload is not invoked, whatever the full parts' outcomes.
C18_RemainderFailureStopsSave ==
    remErr # "nil" => (pc = "returned" /\ ret = remErr /\ finishCalls = 0)

C18_Witness ==
    /\ remErr # "nil" /\ pc = "returned" /\ ret = remErr
    /\ \E j \in Workers : wpc[j] = "done" /\ werr[j] # "nil"
    /\ \E j \in Workers : wpc[j] = "done" /\ werr[j] = "nil"

\* C19: in the multipart branch Save returns nil only if
\* finishMultipartUpload was invoked and succeeded (HTTP 200 with a decodable
\* body); if the finalization fails, Save returns that error.
C19_SuccessOnlyAfterFinish ==
    /\ (size > MAX_PUT_SIZE /\ pc = "returned" /\ ret = "nil")
          => (finishCalls = 1 /\ ~Failed(resp.finish))
    /\ (finishCalls > 0 /\ Failed(resp.finish))
          => /\ pc = "returned"
             /\ ret # "nil"
             /\ resp.finish.transport => ret = "transport error"
             /\ (~resp.finish.transport /\ resp.finish.readable
                   /\ resp.finish.status # 200)
                   => ret = "finishMultipartUpload failed"
             /\ (~resp.finish.transport /\ resp.finish.readable
                   /\ resp.finish.status = 200)
                   => ret = "json error"

C19_Witness ==
    /\ size > MAX_PUT_SIZE /\ finishCalls = 1 /\ pc = "returned"
    /\ ~resp.finish.transport /\ resp.finish.readable /\ resp.finish.status = 200
    /\ ~resp.finish.json
    /\ ret = "json error"

\* The object reached from doc through the first k segments of nodes, and
\* whether each of those segments names a member that is an object.
RECURSIVE ObjectAt(_, _, _)
ObjectAt(doc, nodes, k) ==
    IF k = 0 THEN doc ELSE ObjectAt(doc, nodes, k - 1)[nodes[k]].m

RECURSIVE AllObjects(_, _, _)
AllObjects(doc, nodes, k) ==
    \/ k = 0
    \/ /\ AllObjects(doc, nodes, k - 1)
       /\ nodes[k] \in DOMAIN ObjectAt(doc, nodes, k - 1)
       /\ ObjectAt(doc, nodes, k - 1)[nodes[k]].kind = "object"

\* C20: Get(key) walks the dot-separated segments of key through nested
\* objects: it returns an error exactly when a segment is absent from the
\* object reached so far; a segment that names a non-object value makes it
\* return that value without error, segments left over or not; when every
\* segment names an object it returns the last object.
C20_GetWalksSegments ==
    get.phase = "done" =>
        LET nodes == Split(get.key)
            n == Len(nodes)
        IN  /\ get.err <=>
                  \E k \in 1..n :
                      /\ AllObjects(get.doc, nodes, k - 1)
                      /\ nodes[k] \notin DOMAIN ObjectAt(get.doc, nodes, k - 1)
            /\ \A k \in 1..n :
                  (/\ AllObjects(get.doc, nodes, k - 1)
                   /\ nodes[k] \in DOMAIN ObjectAt(get.doc, nodes, k - 1)
                   /\ ObjectAt(get.doc, nodes, k - 1)[nodes[k]].kind # "object")
                      => /\ ~get.err
                         /\ get.v = ObjectAt(get.doc, nodes, k - 1)[nodes[k]]
            /\ AllObjects(get.doc, nodes, n)
                  => /\ ~get.err
                     /\ get.v = Object(ObjectAt(get.doc, nodes, n))

\* Get("a.b") on {"a": 1, ...}: the value of "a", with "b" left unconsumed.
C20_Witness ==
    /\ get.phase = "done"
    /\ get.key = <<"a", ".", "b">>
    /\ ~get.err
    /\ get.v = Scalar(1)

====
